---- MODULE Spec2Model ----
(***************************************************************************)
(* State-machine model of the encrypted filesystem engine EncryptedFs of   *)
(* src/src/encrypted_fs.rs.                                                *)
(*                                                                         *)
(* The data directory is modelled by four maps:                            *)
(*   inodes   : ino -> FileAttr        (the files  <root>/inodes/<ino>)     *)
(*   contents : ino -> content object  (the paths  <root>/contents/<ino>)   *)
(*   tmps     : <<ino, fh>> -> fid     (the paths                           *)
(*              <root>/contents/<ino>.<fh>.tmp)                             *)
(*   files    : fid -> plaintext       (host file objects; a path or an    *)
(*              open descriptor refers to one, so that a rename over a     *)
(*              path leaves the descriptors opened on the old object)      *)
(* The handle tables are read_handles and write_handles, the handle        *)
(* counter is current_handle.                                              *)
(* clock is the reading SystemTime::now() returns; mtime and ctime of an   *)
(* inode record are readings of it.  steps and unusual count calls.        *)
(* dir_iter is the DirectoryEntryIterator the caller holds: the directory  *)
(* it was opened on, whether that directory has been removed since (gone), *)
(* the file names its stream has read and not yet yielded (pending), the   *)
(* elements yielded so far, and the calls made on the engine since         *)
(* read_dir returned it (calls).                                           *)
(*                                                                         *)
(* Plaintext is kept run-length encoded: a sequence of runs [b, n], n > 0, *)
(* adjacent runs holding different bytes.  The 4096-byte buffers of the    *)
(* source keep their size.                                                 *)
(***************************************************************************)
EXTENDS Integers, Sequences, FiniteSets, TLC

VARIABLES inodes, contents, tmps, files, read_handles, write_handles,
          current_handle, halted, ret, steps, links, clock, unusual, dir_iter

vars == <<inodes, contents, tmps, files, read_handles, write_handles,
          current_handle, halted, ret, steps, links, clock, unusual, dir_iter>>

ROOT_INODE == 1
BUF_LEN == 4096

\* ---- bounds of the model ----
MaxIno == 3          \* generate_next_inode draws from ROOT_INODE+1 .. MaxIno
MaxHandles == 2      \* allocate_next_handle is called at most this often
MaxSteps == 3        \* write_all, truncate and copy_file_range are called at most
                     \* this often
MaxUnusual == 1      \* calls of replace_inode, calls of read_dir and calls that
                     \* pass "." or ".." as a name argument: at most this many
MaxInterleaved == 1  \* other calls made while an iterator is being read
MaxFiles == 1        \* regular files created in the file I/O specification
MaxClock == 1        \* the wall clock advances at most this often

Names == {"a", "b"}
Kinds == {"Directory", "RegularFile"}
Inos == (ROOT_INODE + 1) .. MaxIno

Min(a, b) == IF a < b THEN a ELSE b
Max(a, b) == IF a > b THEN a ELSE b

EmptyFn == [x \in {} |-> 0]
Remove(f, k) == [x \in DOMAIN f \ {k} |-> f[x]]
Put(f, k, v) == [x \in DOMAIN f \cup {k} |-> IF x = k THEN v ELSE f[x]]

\* ---- run-length encoded byte strings ----
Run(b, n) == IF n = 0 THEN << >> ELSE << [b |-> b, n |-> n] >>

RECURSIVE BLen(_)
BLen(c) == IF c = << >> THEN 0 ELSE Head(c).n + BLen(Tail(c))

Cat(x, y) ==
    IF x = << >> THEN y
    ELSE IF y = << >> THEN x
    ELSE IF x[Len(x)].b = Head(y).b
         THEN SubSeq(x, 1, Len(x) - 1)
              \o << [b |-> Head(y).b, n |-> x[Len(x)].n + Head(y).n] >>
              \o Tail(y)
         ELSE x \o y

RECURSIVE Take(_, _)
Take(c, k) ==
    IF k = 0 \/ c = << >> THEN << >>
    ELSE IF Head(c).n <= k
         THEN Cat(<< Head(c) >>, Take(Tail(c), k - Head(c).n))
         ELSE << [b |-> Head(c).b, n |-> k] >>

RECURSIVE Drop(_, _)
Drop(c, k) ==
    IF k = 0 \/ c = << >> THEN c
    ELSE IF Head(c).n <= k
         THEN Drop(Tail(c), k - Head(c).n)
         ELSE << [b |-> Head(c).b, n |-> Head(c).n - k] >> \o Tail(c)

Slice(c, from, n) == Take(Drop(c, from), n)
Zeros(n) == Run(0, n)

\* a write of data at offset off of a host file.  A write beyond the end of
\* the file leaves a gap of ciphertext zeros, which decrypt to keystream
\* bytes: they are modelled by the byte 255.
Overwrite(c, off, data) ==
    LET base == IF off > BLen(c) THEN Cat(c, Run(255, off - BLen(c))) ELSE c
    IN  Cat(Cat(Take(base, off), data), Drop(base, off + BLen(data)))

\* ---- crypto_util: file-name transform ----
\* "$." and "$.." are stored literally, every other name as its token
normalize_end_encrypt_file_name(name) ==
    IF name \in {"$.", "$.."} THEN name ELSE "enc:" \o name

AllNames == Names \cup {".", ".."}

decrypt_and_unnormalize_end_file_name(tok) ==
    IF \E n \in AllNames : normalize_end_encrypt_file_name(n) = tok
    THEN CHOOSE n \in AllNames : normalize_end_encrypt_file_name(n) = tok
    ELSE "?"

\* ---- the state as one value, and operation results ----
St == [inodes |-> inodes, contents |-> contents, tmps |-> tmps, files |-> files,
       read_handles |-> read_handles, write_handles |-> write_handles,
       current_handle |-> current_handle, now |-> clock]

R(st, res, val) == [st |-> st, res |-> res, val |-> val]
Failed(r) == r.res # "Ok"

\* K applied to the value of v, v being evaluated once
Bind(v, K(_)) == CHOOSE x \in { K(y) : y \in {v} } : TRUE

\* the operator ? of the source: r if r is an error, else the rest K of the
\* function applied to r
AndThen(r, K(_)) == Bind(r, LAMBDA y : IF Failed(y) THEN y ELSE K(y))

\* Option<FileAttr>: None, or the attributes
None == [kind |-> "None"]
IsNone(v) == v.kind = "None"

\* the attributes the model keeps: mtime and ctime are readings of the clock
FileAttr(ino, kind, size, time) ==
    [ino |-> ino, kind |-> kind, size |-> size, mtime |-> time, ctime |-> time]

\* attr.mtime = now; attr.ctime = now
touch(attr, time) == [attr EXCEPT !.mtime = time, !.ctime = time]
FileObj(fid) == [type |-> "file", fid |-> fid, entries |-> EmptyFn]
DirObj(entries) == [type |-> "dir", fid |-> 0, entries |-> entries]
DirectoryEntry(ino, name, kind) == [ino |-> ino, name |-> name, kind |-> kind]

\* a host file object not in use
NewFid(st) ==
    CHOOSE n \in 1 .. (Cardinality(DOMAIN st.files) + 1) : n \notin DOMAIN st.files

node_exists(st, ino) == ino \in DOMAIN st.inodes

is_dir(st, ino) == ino \in DOMAIN st.contents /\ st.contents[ino].type = "dir"

is_file(st, ino) == ino \in DOMAIN st.contents /\ st.contents[ino].type = "file"

write_inode(st, attr) ==
    R([st EXCEPT !.inodes = Put(st.inodes, attr.ino, attr)], "Ok", 0)

get_inode(st, ino) ==
    IF ino \in DOMAIN st.inodes THEN R(st, "Ok", st.inodes[ino])
    ELSE R(st, "InodeNotFound", 0)

\* attr.ctime = now, then the record inodes/<attr.ino> is written: the
\* argument ino is only checked for existence
replace_inode(st, ino, attr) ==
    IF ~node_exists(st, ino) THEN R(st, "InodeNotFound", 0)
    ELSE IF attr.kind \notin {"Directory", "RegularFile"} THEN R(st, "InvalidInodeType", 0)
    ELSE write_inode(st, [attr EXCEPT !.ctime = st.now])

exists_by_name(st, parent, name) ==
    LET n1 == IF name = "." THEN "$." ELSE IF name = ".." THEN "$.." ELSE name
        tok == normalize_end_encrypt_file_name(n1)
    IN  is_dir(st, parent) /\ tok \in DOMAIN st.contents[parent].entries

find_by_name(st, parent, name) ==
    IF ~node_exists(st, parent) THEN R(st, "InodeNotFound", 0)
    ELSE IF ~exists_by_name(st, parent, name) THEN R(st, "Ok", None)
    ELSE IF ~is_dir(st, parent) THEN R(st, "InvalidInodeType", 0)
    ELSE LET n1 == IF name = "." THEN "$." ELSE IF name = ".." THEN "$.." ELSE name
             tok == normalize_end_encrypt_file_name(n1)
             inode == st.contents[parent].entries[tok].ino
         IN  get_inode(st, inode)

insert_directory_entry(st, parent, entry) ==
    IF ~is_dir(st, parent) THEN R(st, "Io", 0)
    ELSE LET tok == normalize_end_encrypt_file_name(entry.name)
             e == [ino |-> entry.ino, kind |-> entry.kind]
         IN  R([st EXCEPT !.contents[parent].entries = Put(@, tok, e)], "Ok", 0)

remove_directory_entry(st, parent, name) ==
    LET tok == normalize_end_encrypt_file_name(name)
    IN  IF is_dir(st, parent) /\ tok \in DOMAIN st.contents[parent].entries
        THEN R([st EXCEPT !.contents[parent].entries = Remove(@, tok)], "Ok", 0)
        ELSE R(st, "Io", 0)

\* what the directory stream fs::ReadDir owned by the iterator it reads when
\* it is first polled: the file names of the host directory, none once the
\* directory it was opened on has been removed
read_stream(st, it) ==
    IF it.gone \/ ~is_dir(st, it.dir) THEN {}
    ELSE DOMAIN st.contents[it.dir].entries

\* DirectoryEntryIterator::next for the file name tok the stream has read: the
\* entry file is opened by its path and decoded, a missing one gives an error
\* element
next(st, it, tok) ==
    IF ~is_dir(st, it.dir) \/ tok \notin DOMAIN st.contents[it.dir].entries
    THEN [res |-> "Io", name |-> "?", ino |-> 0, kind |-> "?"]
    ELSE LET e == st.contents[it.dir].entries[tok]
         IN  [res |-> "Ok",
              name |-> IF tok = "$." THEN "."
                       ELSE IF tok = "$.." THEN ".."
                       ELSE decrypt_and_unnormalize_end_file_name(tok),
              ino |-> e.ino, kind |-> e.kind]

\* the iterator read_dir returns: it owns the stream of the host directory
\* and has read nothing yet
DirectoryEntryIterator(ino) ==
    [state |-> "open", dir |-> ino, gone |-> FALSE,
     pending |-> {}, yielded |-> EmptyFn, calls |-> 0]

\* the caller holds no iterator
NoIterator ==
    [state |-> "none", dir |-> 0, gone |-> FALSE,
     pending |-> {}, yielded |-> EmptyFn, calls |-> 0]

read_dir(st, ino) ==
    IF ~is_dir(st, ino) THEN R(st, "InvalidInodeType", 0)
    ELSE R(st, "Ok", DirectoryEntryIterator(ino))

\* an iterator consumed at once, as into_iter().count() does: the elements by
\* file name
drain(st, it) == [tok \in read_stream(st, it) |-> next(st, it, tok)]

children_count(st, ino) ==
    LET r == read_dir(st, ino)
    IN  IF Failed(r) THEN r ELSE R(st, "Ok", Cardinality(DOMAIN drain(st, r.val)))

\* the inode numbers generate_next_inode can return
generate_next_inode(st) == { i \in Inos : ~node_exists(st, i) }

\* ---- handles ----
ReadHandle(attr, pos, fid, fpos) ==
    [attr |-> attr, pos |-> pos, fid |-> fid, fpos |-> fpos]
WriteHandle(attr, path, pos, fid) ==
    [attr |-> attr, path |-> path, pos |-> pos, fid |-> fid]

allocate_next_handle(st) ==
    R([st EXCEPT !.current_handle = @ + 1], "Ok", st.current_handle)

create_read_handle(st, ino, handle) ==
    IF ~is_file(st, ino) THEN R(st, "Io", 0)
    ELSE LET a == get_inode(st, ino)
         IN  IF Failed(a) THEN a
             ELSE R([st EXCEPT !.read_handles =
                        Put(@, handle, ReadHandle(a.val, 0, st.contents[ino].fid, 0))],
                    "Ok", handle)

create_write_handle(st, ino, handle) ==
    IF ~is_file(st, ino) THEN R(st, "Io", 0)
    ELSE LET a == get_inode(st, ino)
         IN  IF Failed(a) THEN a
             ELSE R([st EXCEPT !.write_handles =
                        Put(@, handle, WriteHandle(a.val, "canon", 0, st.contents[ino].fid))],
                    "Ok", handle)

replace_handle_data(st, handle, attr, new_path, position, new_fid) ==
    [st EXCEPT !.write_handles = Put(@, handle, WriteHandle(attr, new_path, position, new_fid))]

\* open that registers the write handle under the id of the read handle
open_sharing_handle(st, ino, rd, wr) ==
    IF ~rd /\ ~wr THEN R(st, "InvalidInput", 0)
    ELSE IF is_dir(st, ino) THEN R(st, "InvalidInodeType", 0)
    ELSE LET a1 == allocate_next_handle(st)
             r1 == create_read_handle(a1.st, ino, a1.val)
         IN  IF ~wr THEN r1
             ELSE IF ~rd THEN create_write_handle(a1.st, ino, a1.val)
             ELSE IF Failed(r1) THEN r1
             ELSE create_write_handle(r1.st, ino, a1.val)

open(st, ino, rd, wr) ==
    IF ~rd /\ ~wr THEN R(st, "InvalidInput", 0)
    ELSE IF is_dir(st, ino) THEN R(st, "InvalidInodeType", 0)
    ELSE LET a1 == allocate_next_handle(st)
             r1 == IF rd THEN create_read_handle(a1.st, ino, a1.val) ELSE R(st, "Ok", 0)
         IN  IF Failed(r1) THEN r1
             ELSE IF ~wr THEN r1
             ELSE IF r1.val \in DOMAIN r1.st.write_handles
                  THEN R(r1.st, "InvalidInput", 0)
             ELSE LET a2 == allocate_next_handle(r1.st)
                  IN  create_write_handle(a2.st, ino, a2.val)

\* fs::rename(contents/<ino>.<handle>.tmp, contents/<ino>): fails when the
\* destination is a directory
rename_tmp(st, ino, handle, fid) ==
    IF is_dir(st, ino) THEN R(st, "PANIC", 0)
    ELSE R([st EXCEPT !.contents = Put(@, ino, FileObj(fid)),
                      !.tmps = Remove(@, <<ino, handle>>)], "Ok", 0)

\* ---- read ----
\* the loop of read that drains the decryptor up to offset
RECURSIVE read_drain(_, _, _)
read_drain(h, flen, offset) ==
    LET read_len == IF h.pos + BUF_LEN > offset THEN offset - h.pos ELSE BUF_LEN
    IN  IF read_len > 0
        THEN IF h.fpos + read_len > flen
             THEN [res |-> "Io", h |-> [h EXCEPT !.fpos = Max(@, flen)]]
             ELSE LET h2 == [h EXCEPT !.pos = @ + read_len, !.fpos = @ + read_len]
                  IN  IF h2.pos = offset THEN [res |-> "Ok", h |-> h2]
                      ELSE read_drain(h2, flen, offset)
        ELSE [res |-> "HANG", h |-> h]

\* the last part of read: cut the buffer to the cached size and read it; a
\* read_exact into an empty buffer reads nothing and succeeds
read_tail(st, offset, len, handle) ==
    LET h == st.read_handles[handle]
        flen == BLen(st.files[h.fid])
    IN  IF offset + len > h.attr.size /\ h.attr.size < offset THEN R(st, "PANIC", 0)
        ELSE LET n == IF offset + len > h.attr.size THEN h.attr.size - offset ELSE len
             IN  IF n > 0 /\ h.fpos + n > flen
                 THEN R([st EXCEPT !.read_handles[handle].fpos = Max(@, flen)], "Io", 0)
                 ELSE R([st EXCEPT !.read_handles[handle].pos = @ + n,
                                   !.read_handles[handle].fpos = @ + n],
                        "Ok", [n |-> n, data |-> Slice(st.files[h.fid], h.fpos, n)])

read(st, ino, offset, len, handle) ==
    IF ~node_exists(st, ino) THEN R(st, "InodeNotFound", 0)
    ELSE IF ~is_file(st, ino) THEN R(st, "InvalidInodeType", 0)
    ELSE IF handle \notin DOMAIN st.read_handles THEN R(st, "InvalidFileHandle", 0)
    ELSE LET h == st.read_handles[handle]
         IN  IF h.attr.ino # ino THEN R(st, "InvalidFileHandle", 0)
             ELSE IF h.attr.kind = "Directory" THEN R(st, "InvalidInodeType", 0)
             ELSE IF offset >= h.attr.size THEN R(st, "Ok", [n |-> 0, data |-> << >>])
             ELSE IF h.pos # offset
                  THEN LET r1 == IF h.pos > offset
                                 THEN create_read_handle(st, ino, handle)
                                 ELSE R(st, "Ok", 0)
                       IN  IF Failed(r1) THEN r1
                           ELSE IF offset > 0
                                THEN LET h1 == r1.st.read_handles[handle]
                                         d == read_drain(h1, BLen(r1.st.files[h1.fid]), offset)
                                         s2 == [r1.st EXCEPT !.read_handles[handle] = d.h]
                                     IN  IF d.res # "Ok" THEN R(s2, d.res, 0)
                                         ELSE read_tail(s2, offset, len, handle)
                                ELSE read_tail(r1.st, offset, len, handle)
                  ELSE read_tail(st, offset, len, handle)

\* ---- write_all ----
\* the loop of the rebuild that copies min(offset, attr.size) bytes of the
\* content file (host file src) into the temp file dst
RECURSIVE rebuild_copy(_, _, _, _, _, _)
rebuild_copy(fs, src, dst, pos_read, offset, size) ==
    LET offset_in_bounds == Min(offset, size)
        read_len == IF pos_read + BUF_LEN > offset_in_bounds
                    THEN offset_in_bounds - pos_read ELSE BUF_LEN
    IN  IF read_len > 0
        THEN IF pos_read + read_len > BLen(fs[src])
             THEN [res |-> "Io", files |-> fs, position |-> pos_read]
             ELSE LET fs2 == [fs EXCEPT ![dst] =
                                 Overwrite(@, pos_read, Slice(fs[src], pos_read, read_len))]
                  IN  IF pos_read + read_len = offset_in_bounds
                      THEN [res |-> "Ok", files |-> fs2, position |-> pos_read + read_len]
                      ELSE rebuild_copy(fs2, src, dst, pos_read + read_len, offset, size)
        ELSE [res |-> "HANG", files |-> fs, position |-> pos_read]

\* the first part of write_all when position # offset: the handle moves to a
\* temp file holding the first min(offset, attr.size) bytes of the content
write_all_rebuild(st, offset, handle) ==
    LET h == st.write_handles[handle]
        s1 == [st EXCEPT !.write_handles = Remove(@, handle)]
        r2 == IF h.path = "tmp" THEN rename_tmp(s1, h.attr.ino, handle, h.fid)
              ELSE R(s1, "Ok", 0)
    IN  IF Failed(r2) THEN r2
        ELSE IF ~is_file(r2.st, h.attr.ino) THEN R(r2.st, "Io", 0)
        ELSE LET in_fid == r2.st.contents[h.attr.ino].fid
                 tmp_path == <<h.attr.ino, handle>>
                 tmp_fid == IF tmp_path \in DOMAIN r2.st.tmps THEN r2.st.tmps[tmp_path]
                            ELSE NewFid(r2.st)
                 s3 == IF tmp_path \in DOMAIN r2.st.tmps THEN r2.st
                       ELSE [r2.st EXCEPT !.files = Put(@, tmp_fid, << >>),
                                          !.tmps = Put(@, tmp_path, tmp_fid)]
                 c == IF offset > 0
                      THEN rebuild_copy(s3.files, in_fid, tmp_fid, 0, offset, h.attr.size)
                      ELSE [res |-> "Ok", files |-> s3.files, position |-> 0]
                 s4 == [s3 EXCEPT !.files = c.files]
             IN  IF c.res # "Ok" THEN R(s4, c.res, 0)
                 ELSE R(replace_handle_data(s4, handle, h.attr, "tmp", c.position, tmp_fid),
                        "Ok", 0)

\* the loop of the tail copy that moves the decryptor to position; read_pos
\* restarts from 0 in every round.  dpos is the decryptor's place in the file.
RECURSIVE tail_skip(_, _, _)
tail_skip(flen, dpos, position) ==
    LET read_pos == 0
        len == Min(BUF_LEN, position - read_pos)
    IN  IF dpos + len > flen THEN [res |-> "Io", dpos |-> flen]
        ELSE IF read_pos + len = position THEN [res |-> "Ok", dpos |-> dpos + len]
        ELSE tail_skip(flen, dpos + len, position)

\* the loop of the tail copy that copies the rest of the content file (host
\* file src, read from dpos) to the handle's sink (host file dst, at position)
RECURSIVE tail_copy(_, _, _, _, _, _)
tail_copy(fs, src, dst, dpos, position, size) ==
    LET len == Min(BUF_LEN, size - position)
    IN  IF dpos + len > BLen(fs[src])
        THEN [res |-> "Io", files |-> fs, position |-> position]
        ELSE LET fs2 == [fs EXCEPT ![dst] = Overwrite(@, position, Slice(fs[src], dpos, len))]
             IN  IF position + len = size
                 THEN [res |-> "Ok", files |-> fs2, position |-> position + len]
                 ELSE tail_copy(fs2, src, dst, dpos + len, position + len, size)

\* write_all_data with the tail copy left out: the size becomes the position
\* reached by the write
write_all_data_without_tail(st, offset, buf, handle) ==
    LET h == st.write_handles[handle]
        fill == IF offset > h.pos THEN Zeros(offset - h.pos) ELSE << >>
        data == Cat(fill, buf)
        position == h.pos + BLen(data)
        s1 == [st EXCEPT !.files[h.fid] = Overwrite(@, h.pos, data),
                         !.write_handles[handle].pos = position]
    IN  R([s1 EXCEPT !.write_handles[handle].attr.size = position], "Ok", 0)

\* the second part of write_all: zero fill, the write, the tail copy
write_all_data(st, offset, buf, handle) ==
    LET h == st.write_handles[handle]
        fill == IF offset > h.pos THEN Zeros(offset - h.pos) ELSE << >>
        data == Cat(fill, buf)
        position == h.pos + BLen(data)
        s1 == [st EXCEPT !.files[h.fid] = Overwrite(@, h.pos, data),
                         !.write_handles[handle].pos = position]
    IN  IF position < h.attr.size
        THEN IF ~is_file(s1, h.attr.ino) THEN R(s1, "Io", 0)
             ELSE LET src == s1.contents[h.attr.ino].fid
                      k == tail_skip(BLen(s1.files[src]), 0, position)
                  IN  IF k.res # "Ok" THEN R(s1, k.res, 0)
                      ELSE LET c == tail_copy(s1.files, src, h.fid, k.dpos, position,
                                              h.attr.size)
                               s2 == [s1 EXCEPT !.files = c.files,
                                                !.write_handles[handle].pos = c.position]
                           IN  IF c.res # "Ok" THEN R(s2, c.res, 0)
                               ELSE R([s2 EXCEPT !.write_handles[handle].attr =
                                                     touch([@ EXCEPT !.size = c.position],
                                                           st.now)],
                                      "Ok", 0)
        ELSE R([s1 EXCEPT !.write_handles[handle].attr =
                              touch([@ EXCEPT !.size = position], st.now)], "Ok", 0)

write_all(st, ino, offset, buf, handle) ==
    IF ~node_exists(st, ino) THEN R(st, "InodeNotFound", 0)
    ELSE IF ~is_file(st, ino) THEN R(st, "InvalidInodeType", 0)
    ELSE IF handle \notin DOMAIN st.write_handles THEN R(st, "InvalidFileHandle", 0)
    ELSE LET h == st.write_handles[handle]
         IN  IF h.attr.ino # ino THEN R(st, "InvalidFileHandle", 0)
             ELSE IF h.attr.kind = "Directory" THEN R(st, "InvalidInodeType", 0)
             ELSE IF h.pos # offset
                  THEN LET r1 == write_all_rebuild(st, offset, handle)
                       IN  IF Failed(r1) THEN r1
                           ELSE write_all_data(r1.st, offset, buf, handle)
                  ELSE write_all_data(st, offset, buf, handle)

flush(st, handle) ==
    IF handle = 0 THEN R(st, "Ok", 0)
    ELSE IF handle \notin DOMAIN st.write_handles THEN R(st, "InvalidFileHandle", 0)
    ELSE R(st, "Ok", 0)

\* ---- copy_file_range ----
copy_file_range(st, src_ino, src_offset, dest_ino, dest_offset, size, src_fh, dest_fh) ==
    IF is_dir(st, src_ino) \/ is_dir(st, dest_ino) THEN R(st, "InvalidInodeType", 0)
    ELSE AndThen(read(st, src_ino, src_offset, size, src_fh),
                 LAMBDA r :
                     AndThen(write_all(r.st, dest_ino, dest_offset, r.val.data, dest_fh),
                             LAMBDA w : R(w.st, "Ok", r.val.n)))

\* ---- release_handle ----
\* the loop of release_handle that re-creates every read handle
RECURSIVE recreate_readers(_, _)
recreate_readers(st, keys) ==
    IF keys = {} THEN R(st, "Ok", 0)
    ELSE LET key == CHOOSE k \in keys : \A k2 \in keys : k <= k2
             attr == st.read_handles[key].attr
             s1 == [st EXCEPT !.read_handles = Remove(@, key)]
             r == create_read_handle(s1, attr.ino, key)
         IN  IF Failed(r) THEN R(s1, "PANIC", 0)
             ELSE recreate_readers(r.st, keys \ {key})

release_read(st, handle) ==
    IF handle \in DOMAIN st.read_handles
    THEN write_inode([st EXCEPT !.read_handles = Remove(@, handle)],
                     st.read_handles[handle].attr)
    ELSE R(st, "Ok", 0)

release_write(st, handle) ==
    IF handle \in DOMAIN st.write_handles
    THEN LET h == st.write_handles[handle]
             r1 == write_inode([st EXCEPT !.write_handles = Remove(@, handle)], h.attr)
         IN  IF h.path = "tmp"
             THEN LET r2 == rename_tmp(r1.st, h.attr.ino, handle, h.fid)
                  IN  IF Failed(r2) THEN r2
                      ELSE recreate_readers(r2.st, DOMAIN r2.st.read_handles)
             ELSE r1
    ELSE R(st, "Ok", 0)

\* release_handle that returns Ok for a handle of neither table
release_handle_accepting_unknown(st, handle) ==
    IF handle = 0 THEN R(st, "Ok", 0)
    ELSE LET r1 == release_read(st, handle)
             r2 == release_write(r1.st, handle)
         IN  r2

release_handle(st, handle) ==
    IF handle = 0 THEN R(st, "Ok", 0)
    ELSE LET valid_fh == handle \in DOMAIN st.read_handles
                         \/ handle \in DOMAIN st.write_handles
             r1 == release_read(st, handle)
             r2 == release_write(r1.st, handle)
         IN  IF Failed(r2) THEN r2
             ELSE IF ~valid_fh THEN R(r2.st, "InvalidFileHandle", 0)
             ELSE r2

\* ---- truncate ----
\* the loop of truncate that appends zeros in chunks of 4096 bytes; asize is
\* the local attr.size
RECURSIVE truncate_grow(_, _, _, _, _)
truncate_grow(st, ino, asize, size, fh) ==
    LET len == Min(BUF_LEN, size - asize)
    IN  AndThen(write_all(st, ino, asize, Zeros(len), fh),
                LAMBDA w : IF asize + len = size THEN w
                           ELSE truncate_grow(w.st, ino, asize + len, size, fh))

\* OpenOptions write+create+truncate on contents/<ino>
truncate_content(st, ino) ==
    IF is_dir(st, ino) THEN R(st, "Io", 0)
    ELSE IF is_file(st, ino)
         THEN R([st EXCEPT !.files[st.contents[ino].fid] = << >>], "Ok", 0)
    ELSE LET fid == NewFid(st)
         IN  R([st EXCEPT !.files = Put(@, fid, << >>),
                          !.contents = Put(@, ino, FileObj(fid))], "Ok", 0)

\* the branch of truncate that decreases the size
truncate_shrink(st, ino, size) ==
    AndThen(open(st, ino, FALSE, TRUE),
            LAMBDA o : AndThen(write_all(o.st, ino, size, << >>, o.val),
                               LAMBDA w : release_handle(w.st, o.val)))

\* the branch of truncate that increases the size
truncate_extend(st, ino, asize, size) ==
    AndThen(open(st, ino, FALSE, TRUE),
            LAMBDA o : AndThen(truncate_grow(o.st, ino, asize, size, o.val),
                               LAMBDA g : AndThen(flush(g.st, o.val),
                                                  LAMBDA f : release_handle(f.st, o.val))))

truncate(st, ino, size) ==
    AndThen(get_inode(st, ino),
            LAMBDA a :
                IF a.val.kind = "Directory" THEN R(st, "InvalidInodeType", 0)
                ELSE IF size = a.val.size THEN R(st, "Ok", 0)
                ELSE AndThen(IF size = 0 THEN truncate_content(st, ino)
                             ELSE IF size < a.val.size THEN truncate_shrink(st, ino, size)
                             ELSE truncate_extend(st, ino, a.val.size, size),
                             LAMBDA b : write_inode(b.st, touch([a.val EXCEPT !.size = size],
                                                                st.now))))

\* ---- namespace operations ----
\* creating the content object of a new node
create_content(st, parent, attr) ==
    IF attr.kind = "RegularFile" THEN truncate_content(st, attr.ino)
    ELSE IF attr.kind = "Directory"
    THEN IF attr.ino \in DOMAIN st.contents THEN R(st, "Io", 0)
         ELSE LET s1 == [st EXCEPT !.contents = Put(@, attr.ino, DirObj(EmptyFn))]
                  e1 == insert_directory_entry(s1, attr.ino,
                            DirectoryEntry(attr.ino, "$.", "Directory"))
              IN  insert_directory_entry(e1.st, attr.ino,
                            DirectoryEntry(parent, "$..", "Directory"))
    ELSE R(st, "InvalidInodeType", 0)

\* create_nod with the caller's attributes attr0 and the inode number ino
\* drawn by generate_next_inode
create_nod_as(st, parent, name, attr0, rd, wr, ino) ==
    IF ~node_exists(st, parent) THEN R(st, "InodeNotFound", 0)
    ELSE LET f == find_by_name(st, parent, name)
         IN  IF Failed(f) THEN f
             ELSE IF ~IsNone(f.val) THEN R(st, "AlreadyExists", 0)
             ELSE LET attr == [attr0 EXCEPT !.ino = ino]
                      w == write_inode(st, attr)
                      c == create_content(w.st, parent, attr)
                  IN  IF Failed(c) THEN c
                      ELSE LET e == insert_directory_entry(c.st, parent,
                                        DirectoryEntry(ino, name, attr.kind))
                           IN  IF Failed(e) THEN e
                               ELSE LET p == get_inode(e.st, parent)
                                    IN  IF Failed(p) THEN p
                                        ELSE LET w2 == write_inode(e.st, touch(p.val, st.now))
                                             IN  IF attr.kind = "RegularFile" /\ (rd \/ wr)
                                                 THEN LET o == open(w2.st, ino, rd, wr)
                                                      IN  IF Failed(o) THEN o
                                                          ELSE R(o.st, "Ok",
                                                                 [fh |-> o.val, attr |-> attr])
                                                 ELSE R(w2.st, "Ok", [fh |-> 0, attr |-> attr])

\* the common end of remove_dir and remove_file: inode file, content object,
\* parent entry, parent attributes
remove_node(st, parent, name, ino) ==
    LET s1 == [st EXCEPT !.inodes = Remove(@, ino)]
        s2 == [s1 EXCEPT !.contents = Remove(@, ino)]
        e == remove_directory_entry(s2, parent, name)
    IN  IF ino \notin DOMAIN st.inodes THEN R(st, "Io", 0)
        ELSE IF ino \notin DOMAIN st.contents THEN R(s1, "Io", 0)
        ELSE IF Failed(e) THEN e
        ELSE LET p == get_inode(e.st, parent)
             IN  IF Failed(p) THEN p ELSE write_inode(e.st, touch(p.val, st.now))

remove_dir(st, parent, name) ==
    IF ~is_dir(st, parent) THEN R(st, "InvalidInodeType", 0)
    ELSE IF ~exists_by_name(st, parent, name) THEN R(st, "NotFound", 0)
    ELSE LET f == find_by_name(st, parent, name)
         IN  IF Failed(f) THEN f
             ELSE IF IsNone(f.val) THEN R(st, "NotFound", 0)
             ELSE IF f.val.kind # "Directory" THEN R(st, "InvalidInodeType", 0)
             ELSE LET d == read_dir(st, f.val.ino)
                  IN  IF Failed(d) THEN d
                      ELSE IF Min(3, Cardinality(DOMAIN drain(st, d.val))) > 2
                      THEN R(st, "NotEmpty", 0)
                      ELSE remove_node(st, parent, name, f.val.ino)

remove_file(st, parent, name) ==
    IF ~is_dir(st, parent) THEN R(st, "InvalidInodeType", 0)
    ELSE IF ~exists_by_name(st, parent, name) THEN R(st, "NotFound", 0)
    ELSE LET f == find_by_name(st, parent, name)
         IN  IF Failed(f) THEN f
             ELSE IF IsNone(f.val) THEN R(st, "NotFound", 0)
             ELSE IF f.val.kind # "RegularFile" THEN R(st, "InvalidInodeType", 0)
             ELSE IF is_dir(st, f.val.ino) THEN R([st EXCEPT !.inodes = Remove(@, f.val.ino)],
                                                   "Io", 0)
             ELSE remove_node(st, parent, name, f.val.ino)

rename(st, parent, name, new_parent, new_name) ==
    IF ~node_exists(st, parent) THEN R(st, "InodeNotFound", 0)
    ELSE IF ~is_dir(st, parent) THEN R(st, "InvalidInodeType", 0)
    ELSE IF ~node_exists(st, new_parent) THEN R(st, "InodeNotFound", 0)
    ELSE IF ~is_dir(st, new_parent) THEN R(st, "InvalidInodeType", 0)
    ELSE IF ~exists_by_name(st, parent, name) THEN R(st, "NotFound", 0)
    ELSE IF parent = new_parent /\ name = new_name THEN R(st, "Ok", 0)
    ELSE LET n == find_by_name(st, new_parent, new_name)
             cnt == children_count(st, n.val.ino)
             f == find_by_name(st, parent, name)
         IN  IF ~Failed(n) /\ ~IsNone(n.val) /\ n.val.kind = "Directory" /\ Failed(cnt)
             THEN cnt
             ELSE IF ~Failed(n) /\ ~IsNone(n.val) /\ n.val.kind = "Directory" /\ cnt.val > 2
             THEN R(st, "NotEmpty", 0)
             ELSE IF Failed(f) THEN f
             ELSE LET r1 == remove_directory_entry(st, parent, name)
                  IN  IF Failed(r1) THEN r1
                      ELSE LET r2 == insert_directory_entry(r1.st, new_parent,
                                        DirectoryEntry(f.val.ino, new_name, f.val.kind))
                           IN  IF Failed(r2) THEN r2
                               ELSE IF Failed(get_inode(r2.st, parent))
                               THEN get_inode(r2.st, parent)
                               ELSE IF Failed(get_inode(r2.st, new_parent))
                               THEN get_inode(r2.st, new_parent)
                               ELSE IF f.val.kind = "Directory"
                               THEN insert_directory_entry(r2.st, f.val.ino,
                                        DirectoryEntry(new_parent, "$..", "Directory"))
                               ELSE R(r2.st, "Ok", 0)

\* ---- construction ----
\* the root is created when it has no inode record: the record is written
\* first, and fs::create_dir fails on a contents/1 that is already there
ensure_root_exists(st) ==
    IF ~node_exists(st, ROOT_INODE)
    THEN LET w == write_inode(st, FileAttr(ROOT_INODE, "Directory", 0, st.now))
         IN  IF Failed(w) THEN w
             ELSE IF ROOT_INODE \in DOMAIN w.st.contents THEN R(w.st, "Io", 0)
             ELSE LET s1 == [w.st EXCEPT
                               !.contents = Put(@, ROOT_INODE, DirObj(EmptyFn))]
                  IN  insert_directory_entry(s1, ROOT_INODE,
                          DirectoryEntry(ROOT_INODE, "$.", "Directory"))
    ELSE R(st, "Ok", 0)

new ==
    ensure_root_exists([inodes |-> EmptyFn, contents |-> EmptyFn, tmps |-> EmptyFn,
                        files |-> EmptyFn,
                        read_handles |-> EmptyFn, write_handles |-> EmptyFn,
                        current_handle |-> 1, now |-> 0]).st

\* host file objects no path and no descriptor refers to are gone; the temp
\* file of a rebuild that did not finish stays under its path
Referenced(st) ==
    { st.contents[i].fid : i \in { j \in DOMAIN st.contents : st.contents[j].type = "file" } }
    \cup { st.tmps[k] : k \in DOMAIN st.tmps }
    \cup { st.read_handles[h].fid : h \in DOMAIN st.read_handles }
    \cup { st.write_handles[h].fid : h \in DOMAIN st.write_handles }

Normalize(st) ==
    [st EXCEPT !.files = [f \in DOMAIN st.files \cap Referenced(st) |-> st.files[f]]]

Init ==
    /\ inodes = new.inodes
    /\ contents = new.contents
    /\ tmps = new.tmps
    /\ files = new.files
    /\ read_handles = new.read_handles
    /\ write_handles = new.write_handles
    /\ current_handle = new.current_handle
    /\ halted = "no"
    /\ ret = [op |-> "new", res |-> "Ok", val |-> 0]
    /\ steps = 0
    /\ links = EmptyFn
    /\ clock = 0
    /\ unusual = 0
    /\ dir_iter = NoIterator

\* the state after the call op that returned r (or did not return); lk is the
\* namespace the caller has built if the call returned Ok, special tells
\* that "." or ".." was passed as a name
EffectOf(r, op, lk, special) ==
    LET s == Normalize(r.st)
    IN  /\ inodes' = s.inodes
        /\ contents' = s.contents
        /\ tmps' = s.tmps
        /\ files' = s.files
        /\ read_handles' = s.read_handles
        /\ write_handles' = s.write_handles
        /\ current_handle' = s.current_handle
        /\ halted' = IF r.res \in {"HANG", "PANIC"} THEN r.res ELSE "no"
        /\ ret' = [op |-> op, res |-> r.res, val |-> r.val]
        /\ steps' = IF op \in {"write_all", "truncate", "copy_file_range"}
                     THEN steps + 1 ELSE steps
        /\ unusual' = IF op \in {"replace_inode", "read_dir"} \/ special
                       THEN unusual + 1 ELSE unusual
        /\ links' = IF r.res = "Ok" THEN lk ELSE links
        /\ clock' = clock

Effect(r, op, lk) == EffectOf(r, op, lk, FALSE)

\* the iterator the caller holds, after a call of the engine that left the
\* state s: the stream of a removed host directory reads nothing from then
\* on; an iterator read to its end has been dropped
observe(it, s) ==
    IF it.state \in {"none", "done"} THEN NoIterator
    ELSE [it EXCEPT !.gone = @ \/ ~is_dir(s, it.dir),
                    !.calls = @ + 1]

\* a call of the engine other than on the iterator
ReturnOf(r, op, lk, special) ==
    /\ dir_iter.state \in {"open", "buffered"} => dir_iter.calls < MaxInterleaved
    /\ special => unusual < MaxUnusual
    /\ EffectOf(r, op, lk, special)
    /\ dir_iter' = observe(dir_iter, r.st)

Return(r, op, lk) == ReturnOf(r, op, lk, FALSE)

\* "." and "..", which the engine maps to "$." and "$.." when it looks a
\* name up and encrypts like any other name when it writes or removes one
IsSpecial(name) == name \in {".", ".."}

\* the namespace the caller has built: links[<<dir, name>>] is the inode that
\* the successful create_nod, remove_file, remove_dir and rename calls so far
\* leave under name in dir
Linked(dir) == { k[2] : k \in { x \in DOMAIN links : x[1] = dir } }
ParentsOf(i) == { k[1] : k \in { x \in DOMAIN links : links[x] = i } }

\* ---- inputs ----
AnyIno == {ROOT_INODE} \cup Inos
AnyHandle == 0 .. MaxHandles
Offsets == {0, 1, BUF_LEN + 1}
Bufs == {<< >>, Run(1, 1), Run(2, 2)}
ReadLens == {1, BUF_LEN + 2}
Sizes == {0, 1, BUF_LEN + 1}
AttrSizes == {0, 1}

\* the attributes a caller passes: a kind, a size and its timestamps (attr.ino
\* is overwritten by the callee)
CallerAttrs(kinds) ==
    { FileAttr(0, k, s, t) : k \in kinds, s \in AttrSizes, t \in {0, clock} }

\* the attributes of a caller that creates an empty node now
NewAttr(kind) == FileAttr(0, kind, 0, clock)

\* ---- actions ----
CreateNod ==
    /\ halted = "no"
    /\ \E parent \in AnyIno, name \in AllNames, attr \in CallerAttrs(Kinds) :
         \E ino \in generate_next_inode(St) :
            ReturnOf(create_nod_as(St, parent, name, attr, FALSE, FALSE, ino),
                     "create_nod", Put(links, <<parent, name>>, ino), IsSpecial(name))

CreateFile ==
    /\ halted = "no"
    /\ \E name \in AllNames, rd \in BOOLEAN, wr \in BOOLEAN, attr \in CallerAttrs({"RegularFile"}) :
         \E ino \in generate_next_inode(St) :
            /\ ino <= ROOT_INODE + MaxFiles
            /\ (rd \/ wr) => current_handle + 1 <= MaxHandles
            /\ ReturnOf(create_nod_as(St, ROOT_INODE, name, attr, rd, wr, ino),
                        "create_nod", Put(links, <<ROOT_INODE, name>>, ino),
                        IsSpecial(name))

RemoveDir ==
    /\ halted = "no"
    /\ \E parent \in AnyIno, name \in AllNames :
         ReturnOf(remove_dir(St, parent, name), "remove_dir",
                  Remove(links, <<parent, name>>), IsSpecial(name))

RemoveFile ==
    /\ halted = "no"
    /\ \E parent \in AnyIno, name \in AllNames :
         ReturnOf(remove_file(St, parent, name), "remove_file",
                  Remove(links, <<parent, name>>), IsSpecial(name))

Rename ==
    /\ halted = "no"
    /\ \E parent \in AnyIno, name \in AllNames, new_parent \in AnyIno, new_name \in AllNames :
         ReturnOf(rename(St, parent, name, new_parent, new_name), "rename",
                  IF <<parent, name>> = <<new_parent, new_name>>
                     \/ <<parent, name>> \notin DOMAIN links
                  THEN links
                  ELSE Put(Remove(links, <<parent, name>>), <<new_parent, new_name>>,
                           links[<<parent, name>>]),
                  IsSpecial(name) \/ IsSpecial(new_name))

Open ==
    /\ halted = "no"
    /\ \E ino \in AnyIno, rd \in BOOLEAN, wr \in BOOLEAN :
         /\ current_handle + 1 <= MaxHandles
         /\ Return(open(St, ino, rd, wr), "open", links)

Read ==
    /\ halted = "no"
    /\ \E ino \in AnyIno, offset \in Offsets, len \in ReadLens, fh \in AnyHandle :
         Return(read(St, ino, offset, len, fh), "read", links)

WriteAll ==
    /\ halted = "no"
    /\ steps < MaxSteps
    /\ \E ino \in AnyIno, offset \in Offsets, buf \in Bufs, fh \in AnyHandle :
         Return(write_all(St, ino, offset, buf, fh), "write_all", links)

\* read_dir: the caller holds the iterator returned (one at a time)
ReadDir ==
    /\ halted = "no"
    /\ dir_iter.state \in {"none", "done"}
    /\ unusual < MaxUnusual
    /\ \E ino \in AnyIno :
         LET r == read_dir(St, ino)
         IN  /\ Effect(r, "read_dir", links)
             /\ dir_iter' = IF r.res = "Ok" THEN r.val ELSE dir_iter

\* one call of next on the iterator the caller holds: the first one reads
\* the stream, each one yields an element for one of the names read, in the
\* order of the host, or None when no name is left
IterNext ==
    /\ halted = "no"
    /\ dir_iter.state \in {"open", "buffered"}
    /\ LET pend == IF dir_iter.state = "open" THEN read_stream(St, dir_iter)
                    ELSE dir_iter.pending
       IN  IF pend = {}
           THEN /\ Effect(R(St, "Ok", None), "next", links)
                /\ dir_iter' = [dir_iter EXCEPT !.state = "done", !.pending = {}]
           ELSE \E tok \in pend :
                   LET e == next(St, dir_iter, tok)
                   IN  /\ Effect(R(St, "Ok", e), "next", links)
                       /\ dir_iter' = [dir_iter EXCEPT !.state = "buffered",
                                                       !.pending = pend \ {tok},
                                                       !.yielded = Put(@, tok, e)]

\* a call of the public allocate_next_handle by the caller
AllocateNextHandle ==
    /\ halted = "no"
    /\ current_handle <= MaxHandles
    /\ Return(allocate_next_handle(St), "allocate_next_handle", links)

\* replace_inode with attributes of the caller's choice, attr.ino included
ReplaceInode ==
    /\ halted = "no"
    /\ unusual < MaxUnusual
    /\ \E ino \in AnyIno, attr_ino \in AnyIno, attr \in CallerAttrs(Kinds \cup {"Symlink"}) :
         Return(replace_inode(St, ino, [attr EXCEPT !.ino = attr_ino]),
                "replace_inode", links)

Flush ==
    /\ halted = "no"
    /\ \E fh \in AnyHandle : Return(flush(St, fh), "flush", links)

ReleaseHandle ==
    /\ halted = "no"
    /\ \E fh \in AnyHandle : Return(release_handle(St, fh), "release_handle", links)

CopyFileRange ==
    /\ halted = "no"
    /\ steps < MaxSteps
    /\ \E src_ino \in AnyIno, dest_ino \in AnyIno, src_offset \in Offsets,
          dest_offset \in Offsets, size \in ReadLens,
          src_fh \in DOMAIN read_handles, dest_fh \in DOMAIN write_handles :
         Return(copy_file_range(St, src_ino, src_offset, dest_ino, dest_offset, size,
                                src_fh, dest_fh),
                "copy_file_range", links)

Truncate ==
    /\ halted = "no"
    /\ \E ino \in AnyIno, size \in Sizes :
         /\ steps < MaxSteps
         /\ current_handle <= MaxHandles
         /\ Return(truncate(St, ino, size), "truncate", links)

\* SystemTime::now() returns a later reading
Tick ==
    /\ halted = "no"
    /\ clock < MaxClock
    /\ clock' = clock + 1
    /\ UNCHANGED <<inodes, contents, tmps, files, read_handles, write_handles,
                   current_handle, halted, ret, steps, links, unusual, dir_iter>>

\* namespace operations under an advancing clock
NextTs == CreateNod \/ RemoveFile \/ Rename \/ Tick
SpecTs == Init /\ [][NextTs]_vars

\* handles on the files of a directory tree
NextFh ==
    \/ CreateNod \/ CreateFile \/ Open \/ Flush \/ ReleaseHandle
    \/ AllocateNextHandle \/ ReplaceInode
SpecFh == Init /\ [][NextFh]_vars

\* namespace operations
NextNs == CreateNod \/ RemoveDir \/ RemoveFile \/ Rename
SpecNs == Init /\ [][NextNs]_vars

\* namespace operations and directory listings
NextRd == CreateNod \/ RemoveDir \/ RemoveFile \/ Rename \/ ReadDir \/ IterNext
SpecRd == Init /\ [][NextRd]_vars

\* namespace operations on inode records the caller may have replaced
NextNa == CreateNod \/ RemoveDir \/ RemoveFile \/ Rename \/ ReplaceInode
SpecNa == Init /\ [][NextNa]_vars

\* file I/O on regular files of the root directory
NextIo ==
    \/ CreateFile \/ Open \/ Read \/ WriteAll \/ ReleaseHandle \/ Truncate \/ CopyFileRange
    \/ AllocateNextHandle
SpecIo == Init /\ [][NextIo]_vars

\* writing to regular files whose inode record the caller may have replaced
NextWr ==
    \/ CreateFile \/ Open \/ WriteAll \/ ReleaseHandle \/ Truncate
    \/ AllocateNextHandle \/ ReplaceInode
SpecWr == Init /\ [][NextWr]_vars

Next ==
    \/ CreateNod \/ CreateFile \/ RemoveDir \/ RemoveFile \/ Rename
    \/ Open \/ Read \/ WriteAll \/ Flush \/ ReleaseHandle \/ Truncate \/ CopyFileRange
    \/ Tick \/ AllocateNextHandle \/ ReplaceInode \/ ReadDir \/ IterNext
Spec == Init /\ [][Next]_vars

\* ======================= properties =======================

LiveDirs == { i \in AnyIno : node_exists(St, i) /\ is_dir(St, i) }

\* find_by_name(dir, name) returns the attributes of inode target
Resolves(dir, name, target) ==
    LET f == find_by_name(St, dir, name)
    IN  f.res = "Ok" /\ ~IsNone(f.val) /\ f.val.ino = target

\* C8: every live directory, the root included, has a "." entry resolving to
\* itself and a ".." entry resolving to its parent directory, the root's ".."
\* resolving to the root
C8_SelfAndParentEntries ==
    \A i \in LiveDirs :
        /\ Resolves(i, ".", i)
        /\ i = ROOT_INODE => Resolves(i, "..", ROOT_INODE)
        /\ \A p \in ParentsOf(i) : Resolves(i, "..", p)

\* the names and inodes read_dir(d) must list: ".", and every linked name
Expected(d) ==
    { DirectoryEntry(d, ".", "Directory") }
    \cup { DirectoryEntry(links[<<d, n>>], n,
                          IF node_exists(St, links[<<d, n>>])
                          THEN inodes[links[<<d, n>>]].kind ELSE "?") : n \in Linked(d) }
    \cup { DirectoryEntry(p, "..", "Directory") : p \in ParentsOf(d) }

\* the elements of a listing of d, one per host file read, are one per name
\* of {".", ".."} and of the names linked in d, no two of them with the same
\* name, each the entry of the inode linked, and none an error
ListsAll(d, elems) ==
    LET listed == { elems[t] : t \in DOMAIN elems }
    IN  /\ \A t1, t2 \in DOMAIN elems : elems[t1].name = elems[t2].name => t1 = t2
        /\ \A e \in listed : e.res = "Ok"
        /\ { e.name : e \in listed } = {".", ".."} \cup Linked(d)
        /\ Expected(d) \subseteq { DirectoryEntry(e.ino, e.name, e.kind) : e \in listed }

\* C9: for every directory d created by create_nod, after any sequence of
\* create_nod, remove_file, remove_dir and rename calls, read_dir(d) succeeds
\* and its iterator, read to its end, yields exactly one element per name of
\* {".", ".."} and of the names linked in d, each with the ino and kind of the
\* inode it is linked to, and nothing else
C9_ReaddirComplete ==
    /\ \A d \in LiveDirs \ {ROOT_INODE} :
          LET r == read_dir(St, d)
          IN  r.res = "Ok" /\ ListsAll(d, drain(St, r.val))
    /\ (/\ ret.op = "next" /\ dir_iter.state = "done" /\ dir_iter.calls = 0
        /\ dir_iter.dir \in LiveDirs \ {ROOT_INODE}) =>
          ListsAll(dir_iter.dir, dir_iter.yielded)

\* name resolves in parent to a directory
ResolvesToDir(parent, name) ==
    LET f == find_by_name(St, parent, name)
    IN  /\ is_dir(St, parent)
        /\ f.res = "Ok" /\ ~IsNone(f.val) /\ f.val.kind = "Directory"
        /\ is_dir(St, f.val.ino)

\* C10: remove_dir of a directory that has an entry other than "." and ".."
\* returns NotEmpty and changes nothing; remove_dir of a directory with only
\* "." and ".." succeeds and removes the inode record, the content directory
\* and the parent entry
C10_EmptyDirectoryGuard ==
    \A parent \in AnyIno, name \in AllNames :
        ResolvesToDir(parent, name) =>
            LET d == find_by_name(St, parent, name).val.ino
                others == DOMAIN contents[d].entries \ {"$.", "$.."}
                r == remove_dir(St, parent, name)
            IN  IF others # {}
                THEN r.res = "NotEmpty" /\ r.st = St
                ELSE /\ r.res = "Ok"
                     /\ ~node_exists(r.st, d)
                     /\ d \notin DOMAIN r.st.contents
                     /\ ~exists_by_name(r.st, parent, name)

\* ---- file I/O ----
HandlesOn(st, i) ==
    { h \in DOMAIN st.read_handles : st.read_handles[h].attr.ino = i }
    \cup { h \in DOMAIN st.write_handles : st.write_handles[h].attr.ino = i }

WritersOn(st, i) == { h \in DOMAIN st.write_handles : st.write_handles[h].attr.ino = i }
ReadersOn(st, i) == { h \in DOMAIN st.read_handles : st.read_handles[h].attr.ino = i }

RegularFiles ==
    { i \in Inos : node_exists(St, i) /\ is_file(St, i) /\ inodes[i].kind = "RegularFile" }

\* the plaintext of the content object contents/<i>
Content(st, i) == st.files[st.contents[i].fid]

\* a regular file whose content is as long as its recorded size
Consistent(i) == i \in RegularFiles /\ BLen(Content(St, i)) = inodes[i].size

\* a consistent regular file no handle is open on
Idle(i) == Consistent(i) /\ HandlesOn(St, i) = {}

\* open(ino, write) -> write_all(ino, o, b, fh) -> release_handle(fh)
WriteSession(st, ino, o, b) ==
    AndThen(open(st, ino, FALSE, TRUE),
            LAMBDA op : AndThen(write_all(op.st, ino, o, b, op.val),
                                LAMBDA w : release_handle(w.st, op.val)))

\* open(ino, read) -> read(ino, o, buf of length n, fh)
FreshRead(st, ino, o, n) ==
    AndThen(open(st, ino, TRUE, FALSE), LAMBDA op : read(op.st, ino, o, n, op.val))

Returns(r, data) == r.res = "Ok" /\ r.val.n = BLen(data) /\ r.val.data = data

\* C1: for every regular file, offset o and bytes b, open(w) -> write_all(o, b)
\* -> release -> open(r) -> read(o, |b|) completes and returns b
C1_RoundTrip ==
    \A i \in Inos : Idle(i) =>
        \A o \in Offsets, b \in Bufs :
            LET w == WriteSession(St, i, o, b)
            IN  w.res = "Ok" /\ Returns(FreshRead(w.st, i, o, BLen(b)), b)

\* C2: a write of k bytes at o < s with o + k < s to a file of size s succeeds
\* and leaves the bytes [o+k, s) and the size s as they were
C2_TailPreservation ==
    \A i \in Inos : Idle(i) =>
        \A o \in Offsets \cup {BUF_LEN}, b \in Bufs :
            LET s == inodes[i].size
                e == o + BLen(b)
                w == WriteSession(St, i, o, b)
            IN  (o < s /\ e < s) =>
                    /\ w.res = "Ok"
                    /\ w.st.inodes[i].size = s
                    /\ Returns(FreshRead(w.st, i, e, s - e), Slice(Content(St, i), e, s - e))

\* C3: a write of buf at o > s to a file of size s (s = 0 included) completes;
\* then the gap [s, o) reads as zeros, [0, s) is as before, [o, o+|buf|) is
\* buf and the size is o + |buf|
C3_HoleFill ==
    \A i \in Inos : Idle(i) =>
        \A o \in Offsets, b \in Bufs :
            LET s == inodes[i].size
                w == WriteSession(St, i, o, b)
            IN  o > s =>
                    /\ w.res = "Ok"
                    /\ w.st.inodes[i].size = o + BLen(b)
                    /\ Returns(FreshRead(w.st, i, 0, o + BLen(b)),
                               Cat(Cat(Content(St, i), Zeros(o - s)), b))

\* C4: a read handle opened before a writer's session reads, after the
\* writer's release, the committed bytes and size from offset 0
C4_CommitInvalidatesReaders ==
    \A i \in Inos : (Consistent(i) /\ WritersOn(St, i) = {}) =>
        \A rh \in ReadersOn(St, i), o \in Offsets, b \in Bufs :
            LET w == WriteSession(St, i, o, b)
            IN  w.res = "Ok" =>
                    \A n \in ReadLens :
                        LET m == Min(n, w.st.inodes[i].size)
                        IN  Returns(read(w.st, i, 0, n, rh), Take(Content(w.st, i), m))

\* C5: while no write handle is open on a regular file, its content is as
\* long as the size in its inode record
C5_ContentLengthIsSize ==
    \A i \in RegularFiles : WritersOn(St, i) = {} => BLen(Content(St, i)) = inodes[i].size

\* C6: truncate(ino, n) of a file of size s and content c with no open handle
\* succeeds for every s and n; then the size is n, a fresh handle reads
\* c[0, min(s, n)) followed by zeros up to n, and nothing at or after n;
\* truncate of a directory returns InvalidInodeType
C6_TruncateResult ==
    /\ \A i \in Inos : Idle(i) =>
          \A n \in Sizes :
              LET s == inodes[i].size
                  t == truncate(St, i, n)
              IN  /\ t.res = "Ok"
                  /\ t.st.inodes[i].size = n
                  /\ Returns(FreshRead(t.st, i, 0, n),
                             Cat(Take(Content(St, i), Min(s, n)), Zeros(n - Min(s, n))))
                  /\ \A o \in {n, n + 1} : Returns(FreshRead(t.st, i, o, 1), << >>)
    /\ \A d \in LiveDirs, n \in Sizes : truncate(St, d, n).res = "InvalidInodeType"

\* C7: a successful write_all(ino, offset, buf, fh) leaves the cached size of
\* the handle at max(prev_size, offset + |buf|), and release_handle(fh) then
\* leaves that size in the inode record
C7_SizeAfterWrite ==
    \A fh \in DOMAIN write_handles, o \in Offsets, b \in Bufs :
        LET h == write_handles[fh]
            size == Max(h.attr.size, o + BLen(b))
            w == write_all(St, h.attr.ino, o, b, fh)
            r == release_handle(w.st, fh)
        IN  w.res = "Ok" =>
                /\ w.st.write_handles[fh].attr.size = size
                /\ r.res = "Ok" => r.st.inodes[h.attr.ino].size = size

\* a write_all has returned Ok and grown the cached size of its handle beyond
\* the recorded size
C7_Witness ==
    /\ ret.op = "write_all" /\ ret.res = "Ok"
    /\ \E fh \in DOMAIN write_handles :
          /\ write_handles[fh].attr.ino \in DOMAIN inodes
          /\ write_handles[fh].attr.size > inodes[write_handles[fh].attr.ino].size
          /\ write_handles[fh].path = "tmp"

\* ---- rename ----
\* the entries of directory d in state st other than those named in except
OtherEntries(st, d, except) ==
    [t \in DOMAIN st.contents[d].entries \ except |-> st.contents[d].entries[t]]

\* the host entries a move of (parent, name) to (new_parent, new_name) may
\* touch in directory d, x being the moved inode
Touched(d, parent, name, new_parent, new_name, x) ==
    (IF d = parent THEN {normalize_end_encrypt_file_name(name)} ELSE {})
    \cup (IF d = new_parent THEN {normalize_end_encrypt_file_name(new_name)} ELSE {})
    \cup (IF d = x THEN {"$.."} ELSE {})

\* C11: when name resolves in parent to inode x, new_name does not exist in
\* the directory new_parent and (parent, name) # (new_parent, new_name),
\* rename succeeds; then name is gone from parent, new_name resolves in
\* new_parent to x with the same attributes and content, every other entry is
\* as before, and a moved directory's ".." resolves to new_parent
C11_RenameMoves ==
    \A parent \in AnyIno, new_parent \in AnyIno, name \in Names, new_name \in Names :
        LET f == find_by_name(St, parent, name)
            r == rename(St, parent, name, new_parent, new_name)
            x == f.val.ino
            g == find_by_name(r.st, new_parent, new_name)
            up == find_by_name(r.st, x, "..")
        IN  ( /\ f.res = "Ok" /\ ~IsNone(f.val)
              /\ node_exists(St, new_parent) /\ is_dir(St, new_parent)
              /\ ~exists_by_name(St, new_parent, new_name)
              /\ <<parent, name>> # <<new_parent, new_name>> ) =>
                /\ r.res = "Ok"
                /\ find_by_name(r.st, parent, name) = R(r.st, "Ok", None)
                /\ g.res = "Ok" /\ g.val = f.val
                /\ r.st.inodes = inodes
                /\ r.st.files = files
                /\ DOMAIN r.st.contents = DOMAIN contents
                /\ \A d \in DOMAIN contents :
                      IF contents[d].type = "dir"
                      THEN /\ r.st.contents[d].type = "dir"
                           /\ LET t == Touched(d, parent, name, new_parent, new_name, x)
                              IN  OtherEntries(r.st, d, t) = OtherEntries(St, d, t)
                      ELSE r.st.contents[d] = contents[d]
                /\ f.val.kind = "Directory" =>
                      up.res = "Ok" /\ ~IsNone(up.val) /\ up.val.ino = new_parent

\* C12: for every existing entry (p, n), rename(p, n, p, n) returns Ok and
\* leaves the inode records, the content objects with their entries and both
\* handle tables as they were
C12_RenameIdentity ==
    \A p \in AnyIno, n \in AllNames :
        exists_by_name(St, p, n) =>
            LET r == rename(St, p, n, p, n)
            IN  r.res = "Ok" /\ r.st = St

\* ---- create_nod ----
\* a file type create_nod has no branch for
OtherKinds == {"Symlink"}

\* C13: create_nod returns InodeNotFound for a parent without inode record,
\* AlreadyExists for a name that resolves in the parent, InvalidInodeType for
\* a kind other than Directory and RegularFile; whenever it returns an error
\* (a parent that is a regular file included) it has created no inode record,
\* content object, directory entry or handle
C13_CreateNodFailureClean ==
    \A parent \in AnyIno, name \in Names, kind \in Kinds \cup OtherKinds,
       rd \in BOOLEAN, wr \in BOOLEAN :
        \A ino \in generate_next_inode(St) :
            LET r == create_nod_as(St, parent, name, NewAttr(kind), rd, wr, ino)
                f == find_by_name(St, parent, name)
            IN  /\ ~node_exists(St, parent) => r.res = "InodeNotFound"
                /\ (node_exists(St, parent) /\ f.res = "Ok" /\ ~IsNone(f.val)) =>
                      r.res = "AlreadyExists"
                /\ (node_exists(St, parent) /\ f.res = "Ok" /\ IsNone(f.val)
                    /\ kind \in OtherKinds) => r.res = "InvalidInodeType"
                /\ r.res # "Ok" => r.st = St

\* ---- handle identifiers ----
Handles(st) == DOMAIN st.read_handles \cup DOMAIN st.write_handles

\* the ids in the tables are non-zero, were allocated before, and none is in
\* both tables; open(read, write) registers two new ids, one per table, and
\* returns the one of the write table
C14_Tables ==
    /\ current_handle >= 1
    /\ \A h \in Handles(St) : h # 0 /\ h < current_handle
    /\ DOMAIN read_handles \cap DOMAIN write_handles = {}
    /\ \A ino \in AnyIno, rd \in BOOLEAN, wr \in BOOLEAN :
          LET o == open(St, ino, rd, wr)
              nr == DOMAIN o.st.read_handles \ DOMAIN read_handles
              nw == DOMAIN o.st.write_handles \ DOMAIN write_handles
          IN  o.res = "Ok" =>
                /\ o.val # 0 /\ o.val >= current_handle /\ o.val < o.st.current_handle
                /\ (rd /\ wr) =>
                      /\ nw = {o.val}
                      /\ Cardinality(nr) = 1
                      /\ nr \cap nw = {}
                      /\ \A r \in nr : r >= current_handle /\ r < o.val

\* a step never lowers the handle counter, and an id that enters a table is
\* one the counter had not reached before the step
C14_Step ==
    /\ current_handle' >= current_handle
    /\ \A h \in (DOMAIN read_handles' \cup DOMAIN write_handles') \ Handles(St) :
          h >= current_handle /\ h < current_handle'

\* C14: every handle id allocated by open or by create_nod is non-zero and
\* greater than every id allocated before it, no id is reused, no id is a key
\* of both tables, and open(read, write) allocates two ids, registers one in
\* each table and returns the write one
C14_HandleIds == [](C14_Tables) /\ [][C14_Step]_vars

\* an open with read and write set has returned: its read handle and its
\* write handle are on the same inode under different ids
C14_Witness ==
    /\ ret.op = "open" /\ ret.res = "Ok"
    /\ ret.val \in DOMAIN write_handles
    /\ \E r \in DOMAIN read_handles :
          /\ r # ret.val
          /\ read_handles[r].attr.ino = write_handles[ret.val].attr.ino

\* ---- handle validation ----
\* the handle arguments: the ids of the model and one the counter has not
\* reached
ProbeHandles == AnyHandle \cup {current_handle}

\* C15: for an existing regular file ino, read returns InvalidFileHandle for a
\* handle that is not a read handle on ino, write_all returns it for a handle
\* that is not a write handle on ino, release_handle returns it for a
\* non-zero handle of neither table, each without changing anything; flush(0)
\* and release_handle(0) return Ok and change nothing
C15_InvalidHandles ==
    /\ \A ino \in RegularFiles, fh \in ProbeHandles :
          /\ (fh \notin DOMAIN read_handles \/ read_handles[fh].attr.ino # ino) =>
                \A o \in Offsets, n \in ReadLens :
                    read(St, ino, o, n, fh) = R(St, "InvalidFileHandle", 0)
          /\ (fh \notin DOMAIN write_handles \/ write_handles[fh].attr.ino # ino) =>
                \A o \in Offsets, b \in Bufs :
                    write_all(St, ino, o, b, fh) = R(St, "InvalidFileHandle", 0)
    /\ \A fh \in ProbeHandles \ {0} :
          fh \notin Handles(St) => release_handle(St, fh) = R(St, "InvalidFileHandle", 0)
    /\ flush(St, 0) = R(St, "Ok", 0)
    /\ release_handle(St, 0) = R(St, "Ok", 0)

\* release_handle has rejected a handle while two regular files exist and a
\* read handle is open on one of them
C15_Witness ==
    /\ ret.op = "release_handle" /\ ret.res = "InvalidFileHandle"
    /\ \E a \in RegularFiles, b \in RegularFiles, fh \in DOMAIN read_handles :
          /\ a # b
          /\ read_handles[fh].attr.ino = a
          /\ read(St, b, 0, 1, fh).res = "InvalidFileHandle"

\* ---- find_by_name ----
\* C16: find_by_name(parent, name) returns InvalidInodeType when parent exists
\* and is a regular file, InodeNotFound when parent has no inode record, and
\* for a directory parent None exactly when name is not linked in it
C16_FindByNameTypeCheck ==
    \A parent \in AnyIno, name \in Names :
        LET f == find_by_name(St, parent, name)
        IN  /\ (node_exists(St, parent) /\ inodes[parent].kind = "RegularFile") =>
                  f.res = "InvalidInodeType"
            /\ ~node_exists(St, parent) => f.res = "InodeNotFound"
            /\ (node_exists(St, parent) /\ is_dir(St, parent)) =>
                  ((f.res = "Ok" /\ IsNone(f.val)) <=> <<parent, name>> \notin DOMAIN links)

\* ---- inode numbers ----
\* C17: create_nod never assigns ROOT_INODE nor a number that an earlier
\* create_nod assigned, also after remove_file or remove_dir has removed the
\* inode that had it
C17_NoInodeReuse ==
    /\ \A ino \in generate_next_inode(St) :
          ino # ROOT_INODE /\ \A k \in DOMAIN links : links[k] # ino
    /\ \A k \in DOMAIN links :
          LET f == remove_file(St, k[1], k[2])
              d == remove_dir(St, k[1], k[2])
          IN  /\ f.res = "Ok" => links[k] \notin generate_next_inode(f.st)
              /\ d.res = "Ok" => links[k] \notin generate_next_inode(d.st)

\* ---- copy_file_range ----
\* a read handle on src whose cached size is the recorded size
ValidReaders(src) ==
    { h \in ReadersOn(St, src) : read_handles[h].attr.size = inodes[src].size }

\* copy_file_range from src through rfh into dst, a regular file just created
\* in the root with the write handle wfh, then release_handle(wfh) and a read
\* of the destination range through a fresh handle
CopyIntoNew(src, rfh, so, dst, do, n) ==
    AndThen(create_nod_as(St, ROOT_INODE, CHOOSE x \in Names : ~exists_by_name(St, ROOT_INODE, x),
                          NewAttr("RegularFile"), FALSE, TRUE, dst),
            LAMBDA c :
                AndThen(copy_file_range(c.st, src, so, dst, do, n, rfh, c.val.fh),
                        LAMBDA k :
                            AndThen(release_handle(k.st, c.val.fh),
                                    LAMBDA rel :
                                        LET rd == FreshRead(rel.st, dst, do, k.val)
                                        IN  IF Failed(rd) THEN rd
                                            ELSE R(rd.st, "Ok",
                                                   [len |-> k.val, data |-> rd.val.data]))))

\* C18: with a valid read handle on the regular file src and a valid write
\* handle on the regular file dst, copy_file_range returns
\* len = min(n, src_size - src_off), 0 when src_off >= src_size, and after the
\* release of the destination handle the destination bytes
\* [dst_off, dst_off + len) are the source bytes [src_off, src_off + len); with
\* a directory as src or dst it returns InvalidInodeType
C18_CopyFileRange ==
    /\ \A src \in Inos : (Consistent(src) /\ WritersOn(St, src) = {}) =>
          \A rfh \in ValidReaders(src), dst \in generate_next_inode(St) :
              (\E x \in Names : ~exists_by_name(St, ROOT_INODE, x)) =>
                  \A so \in Offsets, do \in Offsets, n \in ReadLens :
                      LET size == inodes[src].size
                          len == IF so >= size THEN 0 ELSE Min(n, size - so)
                          k == CopyIntoNew(src, rfh, so, dst, do, n)
                      IN  /\ k.res = "Ok"
                          /\ k.val.len = len
                          /\ k.val.data = Slice(Content(St, src), so, len)
    /\ \A d \in LiveDirs, i \in AnyIno, so \in Offsets, do \in Offsets, n \in ReadLens,
          rfh \in ProbeHandles, wfh \in ProbeHandles :
          /\ copy_file_range(St, d, so, i, do, n, rfh, wfh).res = "InvalidInodeType"
          /\ copy_file_range(St, i, so, d, do, n, rfh, wfh).res = "InvalidInodeType"

\* ---- termination ----
\* C19: every call of read, write_all, truncate and copy_file_range returns a
\* value or an error, for every reachable handle state, file size, offset and
\* buffer length
C19_OperationsTerminate ==
    /\ halted # "HANG"
    /\ \A ino \in AnyIno, o \in Offsets, fh \in ProbeHandles :
          /\ \A n \in ReadLens : read(St, ino, o, n, fh).res # "HANG"
          /\ \A b \in Bufs : write_all(St, ino, o, b, fh).res # "HANG"
    /\ \A ino \in AnyIno, n \in Sizes : truncate(St, ino, n).res # "HANG"
    /\ \A src \in AnyIno, dst \in AnyIno, so \in Offsets, do \in Offsets, n \in ReadLens,
          rfh \in DOMAIN read_handles, wfh \in DOMAIN write_handles :
          copy_file_range(St, src, so, dst, do, n, rfh, wfh).res # "HANG"

\* ---- failed writes ----
\* C20: whenever write_all, called with a write handle fh of ino, returns an
\* error (here: fh is opened, another operation truncates the file, then
\* write_all is called), fh is still a key of the write table and a following
\* release_handle(fh) does not return InvalidFileHandle
C20_FailedWriteKeepsHandle ==
    \A ino \in RegularFiles, s \in Sizes, o \in Offsets, b \in Bufs :
        LET op == open(St, ino, FALSE, TRUE)
            t == truncate(op.st, ino, s)
            w == write_all(t.st, ino, o, b, op.val)
        IN  (op.res = "Ok" /\ t.res = "Ok" /\ w.res \notin {"Ok", "HANG", "PANIC"}) =>
                /\ op.val \in DOMAIN w.st.write_handles
                /\ release_handle(w.st, op.val).res # "InvalidFileHandle"
\* ---- rename over an existing destination ----
\* C21: when rename(parent, name, new_parent, new_name) succeeds and new_name
\* resolved in new_parent to a different inode d before the call, d's inode
\* record and content object no longer exist afterwards
C21_RenameUnlinksDisplaced ==
    \A parent \in LiveDirs, new_parent \in LiveDirs :
        \A name \in Names, new_name \in Names :
            LET f == find_by_name(St, parent, name)
                n == find_by_name(St, new_parent, new_name)
                r == rename(St, parent, name, new_parent, new_name)
            IN  (/\ f.res = "Ok" /\ ~IsNone(f.val)
                 /\ n.res = "Ok" /\ ~IsNone(n.val)
                 /\ n.val.ino # f.val.ino
                 /\ r.res = "Ok") =>
                    /\ ~node_exists(r.st, n.val.ino)
                    /\ n.val.ino \notin DOMAIN r.st.contents

\* ---- timestamps ----
\* C22: after a successful rename that is not the identity, the stored inode
\* records of parent and of new_parent have mtime and ctime equal to the time
\* of the rename, and the stored record of the moved inode has ctime equal to
\* the time of the rename
C22_RenamePersistsTimestamps ==
    \A parent \in LiveDirs, new_parent \in LiveDirs :
        \A name \in Names, new_name \in Names :
            LET f == find_by_name(St, parent, name)
                r == rename(St, parent, name, new_parent, new_name)
            IN  (/\ f.res = "Ok" /\ ~IsNone(f.val)
                 /\ <<parent, name>> # <<new_parent, new_name>>
                 /\ r.res = "Ok") =>
                    /\ r.st.inodes[parent].mtime = clock
                    /\ r.st.inodes[parent].ctime = clock
                    /\ r.st.inodes[new_parent].mtime = clock
                    /\ r.st.inodes[new_parent].ctime = clock
                    /\ f.val.ino \in DOMAIN r.st.inodes
                    /\ r.st.inodes[f.val.ino].ctime = clock

\* ---- two write handles on one file ----
\* W1 and W2 are opened on ino, each writes once (W1 first when w1_first, else
\* W2 first), then both are released (W1 last when w1_last, else W2 last)
TwoWriters(st, ino, o1, b1, o2, b2, w1_first, w1_last) ==
    AndThen(open(st, ino, FALSE, TRUE), LAMBDA h1 :
    AndThen(open(h1.st, ino, FALSE, TRUE), LAMBDA h2 :
    AndThen(IF w1_first THEN write_all(h2.st, ino, o1, b1, h1.val)
                        ELSE write_all(h2.st, ino, o2, b2, h2.val), LAMBDA x :
    AndThen(IF w1_first THEN write_all(x.st, ino, o2, b2, h2.val)
                        ELSE write_all(x.st, ino, o1, b1, h1.val), LAMBDA y :
    AndThen(release_handle(y.st, IF w1_last THEN h2.val ELSE h1.val), LAMBDA z :
            release_handle(z.st, IF w1_last THEN h1.val ELSE h2.val))))))

\* what a fresh read handle reads back, and the recorded size
ReadBack(st, ino) ==
    [size |-> st.inodes[ino].size,
     data |-> [n \in ReadLens |->
                   LET r == FreshRead(st, ino, 0, n) IN [res |-> r.res, val |-> r.val]]]

\* C23: with two write handles open at the same time on the same regular
\* file, each doing its own write_all, after both are released the content and
\* size read back are those of the session of the handle released last
C23_LastWriterWins ==
    \A ino \in RegularFiles :
        Idle(ino) =>
            \A o1 \in Offsets, o2 \in Offsets, b1 \in Bufs, b2 \in Bufs :
                \A w1_first \in BOOLEAN, w1_last \in BOOLEAN :
                    LET both == TwoWriters(St, ino, o1, b1, o2, b2, w1_first, w1_last)
                        alone == IF w1_last THEN WriteSession(St, ino, o1, b1)
                                            ELSE WriteSession(St, ino, o2, b2)
                    IN  (both.res = "Ok" /\ alone.res = "Ok") =>
                            ReadBack(both.st, ino) = ReadBack(alone.st, ino)

\* ---- visibility of writes ----
\* in s the canonical content object and the inode record of ino, and what a
\* fresh read handle reads, are as in the current state
AsBeforeSession(s, ino) ==
    /\ ino \in DOMAIN s.contents /\ Content(s, ino) = Content(St, ino)
    /\ ino \in DOMAIN s.inodes /\ s.inodes[ino] = inodes[ino]
    /\ ReadBack(s, ino) = ReadBack(St, ino)

\* C24: between open(ino, write) and release_handle of that handle, no
\* write_all on the handle (a first one at any offset, or a second one)
\* changes the canonical content object or the inode record of ino, and a
\* read handle opened during the session reads the pre-session content
C24_WritesInvisibleBeforeRelease ==
    \A ino \in RegularFiles :
        Idle(ino) =>
            \A o1 \in Offsets, o2 \in Offsets, b1 \in Bufs, b2 \in Bufs :
                LET h == open(St, ino, FALSE, TRUE)
                    w1 == write_all(h.st, ino, o1, b1, h.val)
                    w2 == write_all(w1.st, ino, o2, b2, h.val)
                IN  (h.res = "Ok" /\ w1.res = "Ok") =>
                        /\ AsBeforeSession(w1.st, ino)
                        /\ w2.res = "Ok" => AsBeforeSession(w2.st, ino)

\* ---- removal with open handles ----
\* C25: after remove_file(parent, name) has succeeded for inode i, neither the
\* inode record nor the content object of i exists, and releasing a read or
\* write handle that was opened on i before the removal re-creates neither
C25_RemovedStaysRemoved ==
    \A parent \in LiveDirs, name \in Names :
        LET f == find_by_name(St, parent, name)
            rm == remove_file(St, parent, name)
        IN  (f.res = "Ok" /\ ~IsNone(f.val) /\ rm.res = "Ok") =>
                /\ f.val.ino \notin DOMAIN rm.st.inodes
                /\ f.val.ino \notin DOMAIN rm.st.contents
                /\ \A fh \in HandlesOn(St, f.val.ino) :
                       LET rl == release_handle(rm.st, fh)
                       IN  /\ f.val.ino \notin DOMAIN rl.st.inodes
                           /\ f.val.ino \notin DOMAIN rl.st.contents

\* ---- the directory tree ----
\* the live directories the entries of directory d refer to, "." and ".."
\* left out
SubDirs(st, d) ==
    { i \in AnyIno : /\ node_exists(st, i) /\ is_dir(st, i)
                     /\ \E t \in DOMAIN st.contents[d].entries \ {"$.", "$.."} :
                            st.contents[d].entries[t].ino = i }

\* the directories reached from the set seen by following entries k times
RECURSIVE ReachedFrom(_, _, _)
ReachedFrom(st, seen, k) ==
    IF k = 0 THEN seen
    ELSE ReachedFrom(st, seen \cup UNION { SubDirs(st, d) : d \in seen }, k - 1)

ReachedFromRoot(st) ==
    IF node_exists(st, ROOT_INODE) /\ is_dir(st, ROOT_INODE)
    THEN ReachedFrom(st, {ROOT_INODE}, MaxIno) ELSE {}

\* following ".." from directory d reaches the root within k steps
RECURSIVE ClimbsToRoot(_, _, _)
ClimbsToRoot(st, d, k) ==
    \/ d = ROOT_INODE
    \/ /\ k > 0
       /\ is_dir(st, d)
       /\ "$.." \in DOMAIN st.contents[d].entries
       /\ ClimbsToRoot(st, st.contents[d].entries["$.."].ino, k - 1)

\* C26: no rename, for any source directory and any new_parent reached from
\* the root (the moved directory and its descendants included), makes a
\* directory its own ancestor or detaches it from the root: a moved directory
\* is still reached from the root by following entries, and following ".."
\* from it reaches the root
C26_RenameKeepsTree ==
    \A parent \in ReachedFromRoot(St), new_parent \in ReachedFromRoot(St) :
        \A name \in Names, new_name \in Names :
            LET f == find_by_name(St, parent, name)
                r == rename(St, parent, name, new_parent, new_name)
            IN  (/\ f.res = "Ok" /\ ~IsNone(f.val) /\ f.val.kind = "Directory"
                 /\ r.res = "Ok") =>
                    /\ f.val.ino \in ReachedFromRoot(r.st)
                    /\ ClimbsToRoot(r.st, f.val.ino, MaxIno)

\* ---- handles and the caller's releases ----
NoHandles(st) == DOMAIN st.read_handles = {} /\ DOMAIN st.write_handles = {}

\* C27: when no handle is open and the caller opens ino (through open or
\* through create_nod) with any combination of the read and write flags and
\* then releases successfully the handle value it was given, both handle
\* tables are empty again
C27_NoHandleOutlivesReleases ==
    NoHandles(St) =>
        \A rd \in BOOLEAN, wr \in BOOLEAN :
            /\ \A ino \in AnyIno :
                   LET o == open(St, ino, rd, wr)
                       rl == release_handle(o.st, o.val)
                   IN  (o.res = "Ok" /\ rl.res = "Ok") => NoHandles(rl.st)
            /\ \A parent \in LiveDirs, name \in Names :
                   \A ino \in generate_next_inode(St) :
                       LET c == create_nod_as(St, parent, name, NewAttr("RegularFile"), rd, wr, ino)
                           rl == release_handle(c.st, c.val.fh)
                       IN  (c.res = "Ok" /\ rl.res = "Ok") => NoHandles(rl.st)

\* ---- release_handle and removed files ----
\* release_handle(fh) returns Ok or an error value and takes fh, and nothing
\* else, out of the handle tables
ReleasesCleanly(st, fh) ==
    LET rl == release_handle(st, fh)
    IN  /\ rl.res \notin {"PANIC", "HANG"}
        /\ DOMAIN rl.st.read_handles = DOMAIN st.read_handles \ {fh}
        /\ DOMAIN rl.st.write_handles = DOMAIN st.write_handles \ {fh}

\* the current state, and the states in which one more file has been created
\* in the root with a read handle on it
WithReader ==
    {St} \cup { c.st : c \in { x \in { create_nod_as(St, ROOT_INODE, name,
                                                     NewAttr("RegularFile"),
                                                     TRUE, FALSE, ino) :
                                        name \in Names, ino \in generate_next_inode(St) } :
                                x.res = "Ok" } }

\* the states of S, and those in which remove_file has removed a file of the root
AfterRemoveFile(S) ==
    S \cup { rm.st : rm \in { x \in { remove_file(s, ROOT_INODE, name) :
                                       s \in S, name \in Names } : x.res = "Ok" } }

\* C28: in every state, also after remove_file has removed the inode a read
\* handle refers to, release_handle returns Ok or an error value for every fh
\* and no other handle is lost from the tables
C28_ReleaseNeverAborts ==
    \A s \in AfterRemoveFile(WithReader) :
        \A fh \in ProbeHandles \cup DOMAIN s.read_handles \cup DOMAIN s.write_handles :
            ReleasesCleanly(s, fh)

====
